---------------------------- MODULE Spec2Model ----------------------------
(***************************************************************************)
(* Task <-> Google Calendar synchronisation of the assistant bot.          *)
(*                                                                         *)
(* Time is counted in half-hours from a fixed, non-zero base epoch, so     *)
(* one hour is 2 units and the value 0 is an ordinary instant (Python's    *)
(* None for due_at is NoDue).  The etag / updated_epoch payload of a link  *)
(* is opaque: it is copied from the response and no code path reads it,    *)
(* so a link is represented by its event id alone.                         *)
(***************************************************************************)
EXTENDS Integers, Sequences, FiniteSets, TLC

----------------------------------------------------------------------------
(* Bounds of the exploration *)
MaxTasks == 2
MaxEvents == 2
MaxTime == 1
MaxDue == 3
MaxPush == 1
MaxOps == 4

(* Program constants, in half-hours *)
REMINDER_LEAD == 2
_EVENT_DEFAULT_DURATION_MIN == 2
DAY == 48

OWNER_ID == 1
Texts == {"a", "b"}
Dues == {MaxDue, MaxDue + 1}
NoDue == -1
NoEv == 0
TaskIds == 1..MaxTasks
EventIds == 1..MaxEvents

VARIABLES
    now,        \* wall clock read by _now_epoch / datetime.now
    tasks,      \* rows of table tasks, keyed by id
    nextId,     \* AUTOINCREMENT counter of table tasks
    remote,     \* events of the remote calendar, keyed by event id
    nextEv,     \* next event id the remote calendar hands out
    connected,  \* a row (owner, google_calendar) exists in oauth_tokens
    pushes,     \* push coroutines in flight (create / update / delete)
    pull,       \* the google_pull_sync job instance
    jobs,       \* pending one-shot reminder jobs of the scheduler
    log,        \* records (WARNING or worse) the latest step wrote to the logger
    ops,        \* operations issued so far by the user, the calendar owner
                \* and the interval trigger
    running,    \* scheduler executor: running instances per job id
    escaped,    \* job ids whose exception left the job body
    oauth_tokens, \* table oauth_tokens: the owner's google_calendar row, if any
    got,        \* what the last call on the token store returned
    txt,        \* the text of the latest /task command, as the parser sees it
    built,      \* the event body pushed for that command, if any
    db,         \* a database file: columns and rows of its tasks table,
                \* the columns the latest init_db added, schema version
    cap         \* Smart Capture: capture_store, the callback handlers in
                \* flight, and how often each captured text was saved

mainVars == <<now, tasks, nextId, remote, nextEv, connected, pushes, pull, jobs, ops>>
schedVars == <<running, escaped>>
credVars == <<oauth_tokens, got>>
parseVars == <<txt, built>>
sliceVars == <<running, escaped, oauth_tokens, got, txt, built, db, cap>>

vars == <<now, tasks, nextId, remote, nextEv, connected, pushes, pull, jobs,
          log, ops, running, escaped, oauth_tokens, got, txt, built, db, cap>>

----------------------------------------------------------------------------
(* MemorySQLite *)

_to_epoch(v) == IF v = NoDue \/ v < 0 THEN NoDue ELSE v

\* the row a fresh INSERT produces
NewRow(user_id, text, raw_text, due_at, all_day, gcal, t) ==
    [ user_id |-> user_id, text |-> text, raw_text |-> raw_text,
      status |-> "open", due_at |-> _to_epoch(due_at),
      created_at |-> t, updated_at |-> t, last_modified |-> t,
      all_day |-> all_day, gcal |-> gcal, calendar_event_id |-> NoEv ]

\* table after add_task; the new id is nextId
add_task(tbl, id, user_id, text, raw_text, due_at, all_day, gcal, t) ==
    [i \in DOMAIN tbl \cup {id} |->
        IF i = id THEN NewRow(user_id, text, raw_text, due_at, all_day, gcal, t)
                  ELSE tbl[i]]

Has(p, f) == f \in DOMAIN p

\* update_task writing the creation time into last_modified
update_row_created(row, p, t, t2) ==
    [row EXCEPT
        !.text = IF Has(p, "text") THEN p.text ELSE @,
        !.raw_text = IF Has(p, "raw_text") THEN p.raw_text ELSE @,
        !.status = IF Has(p, "status") THEN p.status ELSE @,
        !.due_at = IF Has(p, "due_at") THEN _to_epoch(p.due_at) ELSE NoDue,
        !.all_day = IF Has(p, "extra") THEN p.extra.all_day ELSE @,
        !.gcal = IF Has(p, "extra") THEN p.extra.gcal ELSE @,
        !.updated_at = t,
        !.last_modified = row.created_at ]

\* the SET clause of update_task applied to one row; p holds the keyword
\* arguments that were passed (a None argument counts as not passed);
\* updated_at and last_modified each get their own _now_epoch() reading,
\* t first and t2 after it
update_row(row, p, t, t2) ==
    [row EXCEPT
        !.text = IF Has(p, "text") THEN p.text ELSE @,
        !.raw_text = IF Has(p, "raw_text") THEN p.raw_text ELSE @,
        !.status = IF Has(p, "status") THEN p.status ELSE @,
        !.due_at = IF Has(p, "due_at") THEN _to_epoch(p.due_at) ELSE NoDue,
        !.all_day = IF Has(p, "extra") THEN p.extra.all_day ELSE @,
        !.gcal = IF Has(p, "extra") THEN p.extra.gcal ELSE @,
        !.updated_at = t,
        !.last_modified = t2 ]

\* table after update_task(id, **p); an unknown id matches no row
update_task(tbl, id, p, t, t2) ==
    IF id \in DOMAIN tbl THEN [tbl EXCEPT ![id] = update_row(@, p, t, t2)] ELSE tbl

delete_task(tbl, id) == [i \in DOMAIN tbl \ {id} |-> tbl[i]]

set_task_calendar_link(tbl, id, event_id, t) ==
    IF id \in DOMAIN tbl
    THEN [tbl EXCEPT ![id].calendar_event_id = event_id, ![id].updated_at = t]
    ELSE tbl

clear_task_calendar_link(tbl, id, t) ==
    IF id \in DOMAIN tbl
    THEN [tbl EXCEPT ![id].calendar_event_id = NoEv, ![id].updated_at = t]
    ELSE tbl

mark_task_locally_modified(tbl, id, t) ==
    IF id \in DOMAIN tbl
    THEN [tbl EXCEPT ![id].updated_at = t, ![id].last_modified = t]
    ELSE tbl

list_tasks_missing_calendar_link(user_id) ==
    {i \in DOMAIN tasks : /\ tasks[i].user_id = user_id
                          /\ tasks[i].calendar_event_id = NoEv
                          /\ tasks[i].status = "open"}

----------------------------------------------------------------------------
(* GoogleCalendarClient: local task -> remote event *)

\* a client that takes every user for connected
is_connected_any(user_id) == TRUE

is_connected(user_id) == user_id = OWNER_ID /\ connected

\* _epoch_to_all_day_date: the calendar day an instant falls in
_epoch_to_all_day_date(epoch) == epoch \div DAY

\* start of a calendar day as an instant (sync_pull, "date" branch)
DateToEpoch(d) == d * DAY

\* _build_event_body; src is a history field naming the task whose push
\* inserted the event (0 for events made in the calendar itself)
_build_event_body(task, id, t) ==
    LET dated == IF task.due_at = NoDue THEN _epoch_to_all_day_date(t)
                 ELSE _epoch_to_all_day_date(task.due_at)
    IN  [ summary |-> task.text,
          description |-> task.raw_text,
          all_day |-> (task.due_at = NoDue \/ task.all_day),
          start |-> IF task.due_at = NoDue \/ task.all_day THEN dated
                    ELSE task.due_at,
          end |-> IF task.due_at = NoDue \/ task.all_day THEN dated + 1
                  ELSE task.due_at + _EVENT_DEFAULT_DURATION_MIN,
          src |-> id ]

\* events().patch: the fields of the body replace those of the event
PatchEvent(ev, body) == [body EXCEPT !.src = ev.src]

\* an extra that keeps the link the task object had
_set_gcal_link_keep(task, event_id) == [all_day |-> task.all_day, gcal |-> task.gcal]

\* _set_gcal_link on the extra of the task object the push was given
_set_gcal_link(task, event_id) == [all_day |-> task.all_day, gcal |-> event_id]

\* the task has a link in extra["gcal"]
_get_gcal_link(task) == task.gcal

----------------------------------------------------------------------------
(* Initial state: empty store, empty calendar, idle jobs; the credential    *)
(* is provisioned offline, before or after the bot starts                  *)

IdlePull == [pc |-> "idle", evs |-> <<>>, todo |-> {}, local |-> <<>>,
             imported |-> {}, updated |-> {}, aff |-> {}, nowj |-> 0]

\* ids of the jobs start_scheduler registers, and the one-shot reminder
JobIds == {"google_pull_sync", "morning_briefing", "overdue_digest",
           "daily_digest_with_gpt", "health_ping", "sqlite_backup", "reminder"}

\* empty store and calendar, nothing in flight
MainIdle ==
    /\ now = 0
    /\ tasks = <<>>
    /\ nextId = 1
    /\ remote = <<>>
    /\ nextEv = 1
    /\ pushes = {}
    /\ pull = IdlePull
    /\ jobs = {}
    /\ log = {}
    /\ ops = 0

\* no job instance is running
SchedIdle ==
    /\ running = [j \in JobIds |-> 0]
    /\ escaped = {}

\* token dictionaries as google_oauth_setup and _load_credentials build
\* them; None is NoDue for the expiry and "" for the refresh token
TokenDicts ==
    [token : {"t1", "t2"}, refresh_token : {"", "r1"}, expiry : {NoDue, 1, 2}]

NullDict == [token |-> "", refresh_token |-> "", expiry |-> NoDue]
Unread == [st |-> "unread", val |-> NullDict]

\* empty token table, nothing read
CredIdle ==
    /\ oauth_tokens = <<>>
    /\ got = Unread

\* what a /task text holds for the parser: a date expression (none,
\* relative as in "tomorrow", absolute as in "25.12"), a time token
\* (NoDue for none, else the time of day), an all-day or birthday marker
RawTexts ==
    [text : Texts, date : {"none", "relative", "absolute"},
     time : {NoDue, 0, 1, 30}, marker : BOOLEAN]

\* no command received yet
ParseIdle ==
    /\ txt = [text |-> "a", date |-> "none", time |-> NoDue, marker |-> FALSE]
    /\ built = <<>>

SCHEMA_VERSION == 5

\* columns of tasks the model follows: some every version had, due_at
\* (added by v1), and the columns the v3 step adds
BaseCols == {"text", "created_at", "updated_at"}
V3Cols == {"calendar_id", "calendar_event_id", "calendar_event_etag",
           "google_updated_at", "recurrence", "person_id", "notes",
           "last_modified"}
AllCols == BaseCols \cup {"due_at"} \cup V3Cols
TextCols == {"text", "calendar_id", "calendar_event_id", "calendar_event_etag",
             "recurrence", "notes"}

\* SQL NULL in a column
Null(c) == IF c \in TextCols THEN "NULL" ELSE NoDue

\* a database created by the current version, no task yet
MigIdle ==
    db = [columns |-> AllCols, rows |-> <<>>, added |-> {}, version |-> SCHEMA_VERSION]

MaxCaptures == 2
MaxHandlers == 3

CaptureIds == 1..(MaxCaptures + 1)

\* nothing offered for capture yet
CapIdle ==
    cap = [capture_store |-> {}, handlers |-> {}, handled |-> {},
           saved |-> [c \in CaptureIds |-> 0], nextCap |-> 1, nextH |-> 1]

\* every part outside the task store and the calendar at rest
SlicesIdle == SchedIdle /\ CredIdle /\ ParseIdle /\ MigIdle /\ CapIdle

Init ==
    /\ MainIdle
    /\ connected \in BOOLEAN
    /\ SlicesIdle

\* an operation issued from outside / a step of something already running
Issue == ops < MaxOps /\ ops' = ops + 1 /\ UNCHANGED sliceVars
Step == UNCHANGED ops /\ UNCHANGED sliceVars

\* a Task object as a calendar client holds it: the attributes it reads
TaskObj(row) ==
    [user_id |-> row.user_id, text |-> row.text, raw_text |-> row.raw_text,
     due_at |-> row.due_at, all_day |-> row.all_day, gcal |-> row.gcal,
     calendar_event_id |-> row.calendar_event_id]

\* a push coroutine that was handed the task object snap
NewPush(kind, id, snap, via) ==
    [kind |-> kind, id |-> id, snap |-> TaskObj(snap), via |-> via,
     pc |-> "queued", ev |-> NoEv]

HasSlot == Cardinality(pushes) < MaxPush

----------------------------------------------------------------------------
(* Environment *)

\* what a _now_epoch() call can return when the call before it returned t:
\* the same second, or the next one when the clock has moved on in between
ClockReads(t) == {u \in {t, t + 1} : u <= MaxTime}

\* time passes
Tick ==
    /\ Step
    /\ now < MaxTime
    /\ now' = now + 1
    /\ log' = {}
    /\ UNCHANGED <<tasks, nextId, remote, nextEv, connected, pushes, pull, jobs>>

\* scripts/google_oauth_setup.py stores the owner's credential
Provision ==
    /\ Issue
    /\ ~connected
    /\ connected' = TRUE
    /\ log' = {}
    /\ UNCHANGED <<now, tasks, nextId, remote, nextEv, pushes, pull, jobs>>

----------------------------------------------------------------------------
(* _SQLiteAdapter: store mutation, then a fire-and-forget push.            *)
(* asyncio.create_task needs a running loop in the calling thread: with    *)
(* inLoop it schedules the CalendarSync coroutine, without (a call made    *)
(* through run_in_executor) it raises RuntimeError, which is caught and    *)
(* logged, and no push is made.                                            *)

Spawn(inLoop, ok, kind, id, snap) ==
    /\ pushes' = IF inLoop /\ ok THEN pushes \cup {NewPush(kind, id, snap, "sync")}
                  ELSE pushes
    /\ log' = IF ~inLoop /\ ok THEN {"loader"} ELSE {}

\* the table the adapter's add_task leaves
AdapterAddStore(tbl, id, user_id, text, due_at, all_day, t) ==
    add_task(tbl, id, user_id, text, text, due_at, all_day, NoEv, t)

AdapterAddTask(user_id, text, due_at, all_day, inLoop) ==
    /\ Issue
    /\ nextId <= MaxTasks
    /\ inLoop /\ HasSlot
    /\ tasks' = AdapterAddStore(tasks, nextId, user_id, text, due_at, all_day, now)
    /\ nextId' = nextId + 1
    /\ Spawn(inLoop, TRUE, "create", nextId, tasks'[nextId])
    /\ UNCHANGED <<now, remote, nextEv, connected, pull, jobs>>

\* add_task_command: the row is added through the executor, then, for a
\* task with a due date, create_event is awaited on a client built over
\* the adapter
add_task_command(user_id, text, due_at, all_day) ==
    /\ Issue
    /\ nextId <= MaxTasks
    /\ due_at # NoDue => HasSlot
    /\ tasks' = AdapterAddStore(tasks, nextId, user_id, text, due_at, all_day, now)
    /\ nextId' = nextId + 1
    /\ pushes' = IF due_at # NoDue
                  THEN pushes \cup {NewPush("create", nextId, tasks'[nextId], "cmd")}
                  ELSE pushes
    /\ log' = {"loader"}
    /\ UNCHANGED <<now, remote, nextEv, connected, pull, jobs>>

\* keyword arguments the command handlers pass to update_task
Patches == {[status |-> "done"], [text |-> "b"], [due_at |-> MaxDue]}

AdapterUpdateTask(id, p, inLoop) ==
    /\ Issue
    /\ id < nextId
    /\ inLoop /\ id \in DOMAIN tasks => HasSlot
    /\ \E t2 \in ClockReads(now) :
            /\ tasks' = update_task(tasks, id, p, now, t2)
            /\ now' = t2
    /\ Spawn(inLoop, id \in DOMAIN tasks, "update", id,
             IF id \in DOMAIN tasks THEN tasks'[id] ELSE <<>>)
    /\ UNCHANGED <<nextId, remote, nextEv, connected, pull, jobs>>

AdapterDeleteTask(id, inLoop) ==
    /\ Issue
    /\ id < nextId
    /\ inLoop /\ id \in DOMAIN tasks => HasSlot
    /\ tasks' = delete_task(tasks, id)
    /\ Spawn(inLoop, id \in DOMAIN tasks, "delete", id,
             IF id \in DOMAIN tasks THEN tasks[id] ELSE <<>>)
    /\ UNCHANGED <<now, nextId, remote, nextEv, connected, pull, jobs>>

\* one iteration of reset_tasks: delete_event first when the row carries
\* calendar_event_id and the calendar is connected, then the local delete
reset_tasks(id) ==
    /\ Issue
    /\ id \in DOMAIN tasks
    /\ IF is_connected(tasks[id].user_id) /\ tasks[id].calendar_event_id # NoEv
       THEN /\ HasSlot
            /\ pushes' = pushes \cup {NewPush("delete", id, tasks[id], "reset")}
            /\ log' = {}
           
            /\ UNCHANGED tasks
       ELSE /\ tasks' = delete_task(tasks, id)
            /\ log' = {"loader"}
            /\ UNCHANGED pushes
    /\ UNCHANGED <<now, nextId, remote, nextEv, connected, pull, jobs>>

\* GoogleCalendarClient.create_event / update_event called on the task as
\* the store holds it at the time of the call
create_event(id) ==
    /\ Issue
    /\ id \in DOMAIN tasks /\ HasSlot
    /\ pushes' = pushes \cup {NewPush("create", id, tasks[id], "cmd")}
    /\ log' = {}
    /\ UNCHANGED <<now, tasks, nextId, remote, nextEv, connected, pull, jobs>>

update_event(id) ==
    /\ Issue
    /\ id \in DOMAIN tasks /\ HasSlot
    /\ pushes' = pushes \cup {NewPush("update", id, tasks[id], "cmd")}
    /\ log' = {}
    /\ UNCHANGED <<now, tasks, nextId, remote, nextEv, connected, pull, jobs>>

\* calendar-link helpers the adapter proxies to the store
SetTaskCalendarLink(id, event_id) ==
    /\ Issue
    /\ id \in DOMAIN tasks
    /\ tasks' = set_task_calendar_link(tasks, id, event_id, now)
    /\ log' = {}
    /\ UNCHANGED <<now, nextId, remote, nextEv, connected, pushes, pull, jobs>>

ClearTaskCalendarLink(id) ==
    /\ Issue
    /\ id \in DOMAIN tasks
    /\ tasks[id].calendar_event_id # NoEv
    /\ tasks' = clear_task_calendar_link(tasks, id, now)
    /\ log' = {}
    /\ UNCHANGED <<now, nextId, remote, nextEv, connected, pushes, pull, jobs>>

MarkTaskLocallyModified(id) ==
    /\ Issue
    /\ id \in DOMAIN tasks
    /\ tasks' = mark_task_locally_modified(tasks, id, now)
    /\ log' = {}
    /\ UNCHANGED <<now, nextId, remote, nextEv, connected, pushes, pull, jobs>>

----------------------------------------------------------------------------
(* Push coroutines: CalendarSync.on_task_* (via "sync", client over the    *)
(* bare store), the create_event awaited by add_task_command (via "cmd")   *)
(* and the delete_event awaited by reset_tasks (via "reset"), the latter   *)
(* two on a client over the adapter, run through the executor.  log holds  *)
(* the WARNING-or-worse records the latest step wrote.                     *)

\* update_event degrades to create_event when the task object has no link
IsCreate(p) == p.kind = "create" \/ (p.kind = "update" /\ _get_gcal_link(p.snap) = NoEv)

FailLog(p) ==
    IF p.via # "sync" THEN {"cmd"}
    ELSE IF p.kind = "create" THEN {"sync_create"}
    ELSE IF p.kind = "update" THEN {"sync_update"}
    ELSE {"sync_delete"}

\* reset_tasks deletes the row once its delete_event has returned or raised
FinishTasks(p, tbl) == IF p.via = "reset" THEN delete_task(tbl, p.id) ELSE tbl

\* _safe_update_task: db.update_task(task_id, **fields)
_safe_update_task(tbl, id, fields, t, t2) == update_task(tbl, id, fields, t, t2)

\* the remote half of create_event / update_event / delete_event; ok is
\* the outcome of the HTTP call
PushRemote(p, ok) ==
    /\ Step
    /\ p \in pushes /\ p.pc = "queued"
    /\ IF ~is_connected(p.snap.user_id)
       THEN /\ pushes' = pushes \ {p}
            /\ tasks' = FinishTasks(p, tasks)
            /\ log' = IF p.via = "reset" THEN {"cmd", "loader"} ELSE {}
            /\ UNCHANGED <<remote, nextEv>>
       ELSE IF IsCreate(p)
       THEN IF ok /\ nextEv <= MaxEvents
            THEN /\ remote' = [e \in DOMAIN remote \cup {nextEv} |->
                                 IF e = nextEv THEN _build_event_body(p.snap, p.id, now)
                                 ELSE remote[e]]
                 /\ nextEv' = nextEv + 1
                 /\ pushes' = (pushes \ {p}) \cup {[p EXCEPT !.pc = "link", !.ev = nextEv]}
                 /\ log' = {}
                 /\ UNCHANGED tasks
            ELSE /\ pushes' = pushes \ {p}
                 /\ log' = FailLog(p)
                 /\ UNCHANGED <<tasks, remote, nextEv>>
       ELSE IF p.kind = "update"
       THEN IF ok /\ p.snap.gcal \in DOMAIN remote
            THEN /\ remote' = [remote EXCEPT ![p.snap.gcal] =
                                 PatchEvent(@, _build_event_body(p.snap, p.id, now))]
                 /\ pushes' = (pushes \ {p}) \cup
                                 {[p EXCEPT !.pc = "link", !.ev = p.snap.gcal]}
                 /\ log' = {}
                 /\ UNCHANGED <<tasks, nextEv>>
            ELSE /\ pushes' = pushes \ {p}
                 /\ log' = FailLog(p)
                 /\ UNCHANGED <<tasks, remote, nextEv>>
       ELSE IF _get_gcal_link(p.snap) = NoEv
       THEN /\ pushes' = pushes \ {p}
            /\ tasks' = FinishTasks(p, tasks)
            /\ log' = IF p.via = "reset" THEN {"loader"} ELSE {}
            /\ UNCHANGED <<remote, nextEv>>
       ELSE /\ remote' = IF ok /\ p.snap.gcal \in DOMAIN remote
                         THEN [e \in DOMAIN remote \ {p.snap.gcal} |-> remote[e]]
                         ELSE remote
            /\ pushes' = (pushes \ {p}) \cup {[p EXCEPT !.pc = "link", !.ev = NoEv]}
            /\ log' = {}
            /\ UNCHANGED <<tasks, nextEv>>
   
    /\ UNCHANGED <<now, nextId, connected, pull, jobs>>

\* the local half: the link is written to (or popped from) extra["gcal"]
PushWriteBack(p) ==
    /\ Step
    /\ p \in pushes /\ p.pc = "link"
    /\ \E t2 \in ClockReads(now) :
            /\ tasks' = FinishTasks(p,
                    _safe_update_task(tasks, p.id,
                        [extra |-> _set_gcal_link(p.snap, p.ev)], now, t2))
            /\ now' = t2
    /\ pushes' = pushes \ {p}
    /\ log' = IF p.via # "sync" /\ p.id \in DOMAIN tasks THEN {"loader"} ELSE {}
   
    /\ UNCHANGED <<nextId, remote, nextEv, connected, pull, jobs>>

----------------------------------------------------------------------------
(* The remote calendar, edited by its owner outside the bot *)

RemoteEvent(summary, start, all_day) ==
    [ summary |-> summary, description |-> "",
      all_day |-> all_day,
      start |-> IF all_day THEN _epoch_to_all_day_date(start) ELSE start,
      end |-> IF all_day THEN _epoch_to_all_day_date(start) + 1
              ELSE start + _EVENT_DEFAULT_DURATION_MIN,
      src |-> 0 ]

RemoteCreate(summary, start, all_day) ==
    /\ Issue
    /\ nextEv <= MaxEvents
    /\ remote' = [e \in DOMAIN remote \cup {nextEv} |->
                    IF e = nextEv THEN RemoteEvent(summary, start, all_day)
                    ELSE remote[e]]
    /\ nextEv' = nextEv + 1
    /\ log' = {}
    /\ UNCHANGED <<now, tasks, nextId, connected, pushes, pull, jobs>>

RemoteEdit(e, summary, start) ==
    /\ Issue
    /\ e \in DOMAIN remote
    /\ remote[e].summary # summary \/ remote[e].start # start \/ remote[e].all_day
    /\ remote' = [remote EXCEPT ![e] =
                    [@ EXCEPT !.summary = summary, !.all_day = FALSE, !.start = start,
                              !.end = start + _EVENT_DEFAULT_DURATION_MIN]]
    /\ log' = {}
    /\ UNCHANGED <<now, tasks, nextId, nextEv, connected, pushes, pull, jobs>>

RemoteDelete(e) ==
    /\ Issue
    /\ e \in DOMAIN remote
    /\ remote' = [f \in DOMAIN remote \ {e} |-> remote[f]]
    /\ log' = {}
    /\ UNCHANGED <<now, tasks, nextId, nextEv, connected, pushes, pull, jobs>>

----------------------------------------------------------------------------
(* run_google_pull_and_schedule: sync_pull through the executor on a       *)
(* client over the adapter, then one reminder per affected task            *)

\* ORDER BY (due_at IS NULL), due_at ASC, id ASC
TaskBefore(tbl, i, j) ==
    LET ni == IF tbl[i].due_at = NoDue THEN 1 ELSE 0
        nj == IF tbl[j].due_at = NoDue THEN 1 ELSE 0
    IN  \/ ni < nj
        \/ ni = nj /\ tbl[i].due_at < tbl[j].due_at
        \/ ni = nj /\ tbl[i].due_at = tbl[j].due_at /\ i < j

RECURSIVE SortedRows(_, _)
SortedRows(tbl, S) ==
    IF S = {} THEN <<>>
    ELSE LET m == CHOOSE i \in S : \A j \in S \ {i} : TaskBefore(tbl, i, j)
         IN  <<[id |-> m, row |-> TaskObj(tbl[m])]>> \o SortedRows(tbl, S \ {m})

\* list_tasks(user_id=user_id, status=None, limit=None)
list_tasks(user_id) ==
    SortedRows(tasks, {i \in DOMAIN tasks : tasks[i].user_id = user_id})

\* index in local of the first task whose extra["gcal"] names ev_id, else 0
_find_local_by_event_id(local, ev_id) ==
    LET hits == {k \in 1..Len(local) : local[k].row.gcal = ev_id}
    IN  IF hits = {} THEN 0 ELSE CHOOSE k \in hits : \A h \in hits : k <= h

\* start of the event as an epoch: dateTime as is, date as local midnight
due_epoch(ev) == IF ev.all_day THEN DateToEpoch(ev.start) ELSE ev.start

\* orderBy="startTime"
NextEvent(evs, todo) ==
    CHOOSE e \in todo : \A f \in todo \ {e} :
        \/ due_epoch(evs[e]) < due_epoch(evs[f])
        \/ due_epoch(evs[e]) = due_epoch(evs[f]) /\ e < f

\* an update that also passes a status
PullFields_status(t, ev, ev_id) ==
    [text |-> ev.summary, raw_text |-> t.raw_text, status |-> "open",
     extra |-> [all_day |-> (ev.all_day \/ t.all_day), gcal |-> ev_id]]

\* keyword arguments of the update sync_pull issues for local task t
\* (the object read at the start of the pull) against event ev
PullFields(t, ev, ev_id) ==
    LET new_extra == [all_day |-> (ev.all_day \/ t.all_day), gcal |-> ev_id]
        new_text == IF ev.summary # t.text THEN ev.summary ELSE t.text
        new_raw == IF ev.description # "" /\ ev.description # t.raw_text
                   THEN ev.description ELSE t.raw_text
        new_due == IF due_epoch(ev) # t.due_at THEN due_epoch(ev) ELSE t.due_at
        base == [text |-> new_text, raw_text |-> new_raw, extra |-> new_extra]
    IN  IF new_due = NoDue THEN base
        ELSE [text |-> new_text, raw_text |-> new_raw, extra |-> new_extra,
              due_at |-> new_due]

needs_update(t, ev) ==
    \/ ev.summary # t.text
    \/ ev.description # "" /\ ev.description # t.raw_text
    \/ due_epoch(ev) # t.due_at

\* the job starts: not connected returns at once; a failing events().list
\* raises out of sync_pull and is logged by the job
JobStart(ok) ==
    /\ Issue
    /\ pull.pc = "idle"
    /\ IF ~is_connected(OWNER_ID) THEN log' = {} /\ UNCHANGED pull
       ELSE IF ~ok THEN log' = {"job"} /\ UNCHANGED pull
       ELSE /\ log' = {}
            /\ pull' = IF DOMAIN remote = {} THEN IdlePull
                        ELSE [IdlePull EXCEPT !.pc = "events", !.evs = remote,
                                              !.todo = DOMAIN remote,
                                              !.local = list_tasks(OWNER_ID)]
   
    /\ UNCHANGED <<now, tasks, nextId, remote, nextEv, connected, pushes, jobs>>

\* the state of the job once the last event has been handled: sync_pull
\* returns and the job reads the clock
AfterEvent(pl, t) ==
    IF pl.todo # {} THEN pl
    ELSE IF pl.imported \cup pl.updated = {} THEN IdlePull
    ELSE [IdlePull EXCEPT !.pc = "sched", !.aff = pl.imported \cup pl.updated,
                          !.nowj = t]

\* sync_pull on an event loop thread: the adapter's create_task succeeds
pull_inLoop_loop == TRUE

\* the job awaits _run_blocking(gc.sync_pull, user_id): sync_pull, and with
\* it the adapter calls it makes, runs in an executor thread
pull_inLoop == FALSE

\* one iteration of the loop over the listed events
PullEvent ==
    /\ Step
    /\ pull.pc = "events"
    /\ LET e == NextEvent(pull.evs, pull.todo)
           ev == pull.evs[e]
           k == _find_local_by_event_id(pull.local, e)
       IN  IF k = 0
           THEN /\ nextId <= MaxTasks
                /\ tasks' = add_task(tasks, nextId, OWNER_ID, ev.summary,
                                     IF ev.description # "" THEN ev.description
                                     ELSE ev.summary,
                                     due_epoch(ev), ev.all_day, e, now)
                /\ nextId' = nextId + 1
                /\ pull' = AfterEvent([pull EXCEPT
                                !.todo = @ \ {e},
                                !.imported = @ \cup {nextId},
                                !.local = Append(@, [id |-> nextId, row |-> TaskObj(tasks'[nextId])])],
                                now)
                /\ UNCHANGED now
                /\ Spawn(pull_inLoop, TRUE, "create", nextId, tasks'[nextId])
           ELSE LET t == pull.local[k]
                IN  /\ \E t2 \in ClockReads(now) :
                            /\ tasks' = _safe_update_task(tasks, t.id,
                                    IF needs_update(t.row, ev) THEN PullFields(t.row, ev, e)
                                    ELSE [extra |-> [all_day |-> (ev.all_day \/ t.row.all_day),
                                                     gcal |-> e]],
                                    now, t2)
                            /\ now' = t2
                    /\ pull' = AfterEvent([pull EXCEPT
                                    !.todo = @ \ {e},
                                    !.updated = IF needs_update(t.row, ev)
                                                THEN @ \cup {t.id} ELSE @],
                                    now')
                    /\ Spawn(pull_inLoop, t.id \in DOMAIN tasks, "update", t.id,
                             IF t.id \in DOMAIN tasks THEN tasks'[t.id] ELSE <<>>)
                    /\ UNCHANGED nextId
   
    /\ UNCHANGED <<remote, nextEv, connected, jobs>>

\* the job comparing the reminder time with < instead of <=
wants_reminder_lt(tbl, id, nowj) ==
    /\ id \in DOMAIN tbl
    /\ tbl[id].due_at # NoDue
    /\ ~tbl[id].all_day
    /\ ~(tbl[id].due_at - REMINDER_LEAD < nowj)

\* the job registers a reminder for a task that has a due date, is not
\* all-day and whose reminder time is still ahead of the clock it read
wants_reminder(tbl, id, nowj) ==
    /\ id \in DOMAIN tbl
    /\ tbl[id].due_at # NoDue
    /\ ~tbl[id].all_day
    /\ ~(tbl[id].due_at - REMINDER_LEAD <= nowj)

\* add_job that keeps the pending job of the same id
add_job_keep(js, id, at) == js \cup {[id |-> id, at |-> at]}

\* scheduler.add_job(..., id="reminder:<user>:<task>", replace_existing=True)
add_job(js, id, at) == {j \in js : j.id # id} \cup {[id |-> id, at |-> at]}

\* one iteration of the loop over the affected task ids
JobSched ==
    /\ Step
    /\ pull.pc = "sched"
    /\ LET id == CHOOSE i \in pull.aff : \A j \in pull.aff : i <= j
       IN  /\ jobs' = IF wants_reminder(tasks, id, pull.nowj)
                      THEN add_job(jobs, id, tasks[id].due_at - REMINDER_LEAD)
                      ELSE jobs
           /\ pull' = IF pull.aff = {id} THEN IdlePull
                       ELSE [pull EXCEPT !.aff = @ \ {id}]
    /\ log' = {}
    /\ UNCHANGED <<now, tasks, nextId, remote, nextEv, connected, pushes>>

\* a date-trigger job runs once its run_date has come and is then gone
send_task_reminder(j) ==
    /\ Step
    /\ j \in jobs
    /\ j.at <= now
    /\ jobs' = jobs \ {j}
    /\ log' = {}
    /\ UNCHANGED <<now, tasks, nextId, remote, nextEv, connected, pushes, pull>>

\* the process is stopped and started again while no push and no pull is
\* running: the database file is kept, the scheduler of the new process is
\* a fresh in-memory AsyncIOScheduler holding the recurring jobs only
Restart ==
    /\ Issue
    /\ pushes = {} /\ pull.pc = "idle"
    /\ jobs' = {}
    /\ log' = {}
    /\ UNCHANGED <<now, tasks, nextId, remote, nextEv, connected, pushes, pull>>

----------------------------------------------------------------------------
Next ==
    \/ Tick
    \/ Provision
    \/ \E d \in Dues \cup {NoDue}, a \in BOOLEAN :
            (a => d # NoDue) /\ AdapterAddTask(OWNER_ID, "a", d, a, TRUE)
    \/ \E d \in Dues \cup {NoDue}, a \in BOOLEAN :
            (a => d # NoDue) /\ add_task_command(OWNER_ID, "a", d, a)
    \/ \E id \in TaskIds, p \in Patches, l \in BOOLEAN : AdapterUpdateTask(id, p, l)
    \/ \E id \in TaskIds, l \in BOOLEAN : AdapterDeleteTask(id, l)
    \/ \E id \in TaskIds : reset_tasks(id)
    \/ \E id \in TaskIds : create_event(id)
    \/ \E id \in TaskIds : update_event(id)
    \/ \E id \in TaskIds : SetTaskCalendarLink(id, 1)
    \/ \E id \in TaskIds : ClearTaskCalendarLink(id)
    \/ \E id \in TaskIds : MarkTaskLocallyModified(id)
    \/ \E p \in pushes, ok \in BOOLEAN : PushRemote(p, ok)
    \/ \E p \in pushes : PushWriteBack(p)
    \/ \E d \in Dues, a \in BOOLEAN : RemoteCreate("a", d, a)
    \/ \E e \in EventIds, x \in Texts, d \in Dues : RemoteEdit(e, x, d)
    \/ \E e \in EventIds : RemoteDelete(e)
    \/ \E ok \in BOOLEAN : JobStart(ok)
    \/ PullEvent
    \/ JobSched
    \/ \E j \in jobs : send_task_reminder(j)
    \/ Restart

Spec == Init /\ [][Next]_vars

----------------------------------------------------------------------------
(* The scheduler's executor under the options start_scheduler passes:      *)
(* every job is added with max_instances=1 and coalesce=True (the reminder *)
(* jobs take the same values as defaults).  A job body is seen here by its *)
(* outcome only.                                                           *)

max_instances == 1

\* a due run is handed to the executor without looking at the instances
submit_job_any(run, j) == [run EXCEPT ![j] = @ + 1]

\* a due run is handed to the executor: it starts unless max_instances
\* instances of the job id are running, in which case the run is skipped
submit_job(run, j) ==
    IF run[j] < max_instances THEN [run EXCEPT ![j] = @ + 1] ELSE run

\* the trigger of job j fires
Trigger(j) ==
    /\ running' = submit_job(running, j)
    /\ log' = IF running[j] < max_instances THEN {} ELSE {"max_instances"}
    /\ UNCHANGED <<mainVars, escaped, credVars, parseVars, db, cap>>

\* a job body whose exception leaves the coroutine
job_body_raise(j, raised) ==
    [logged |-> {}, propagated |-> raised]

\* a job body: try: ... except Exception as e: logger.exception(...)
job_body(j, raised) ==
    [logged |-> IF raised THEN {j} ELSE {}, propagated |-> FALSE]

\* a running instance of job j ends, normally or after an exception inside
JobEnd(j, raised) ==
    /\ running[j] > 0
    /\ running' = [running EXCEPT ![j] = @ - 1]
    /\ log' = job_body(j, raised).logged
    /\ escaped' = IF job_body(j, raised).propagated THEN escaped \cup {j} ELSE escaped
    /\ UNCHANGED <<mainVars, credVars, parseVars, db, cap>>

SchedInit ==
    MainIdle /\ connected = FALSE /\ SchedIdle /\ CredIdle /\ ParseIdle /\ MigIdle
    /\ CapIdle

SchedNext ==
    \/ \E j \in JobIds : Trigger(j)
    \/ \E j \in JobIds, raised \in BOOLEAN : JobEnd(j, raised)

SchedSpec == SchedInit /\ [][SchedNext]_vars

----------------------------------------------------------------------------
(* The token store (secure_tokens, oauth_tokens table) and the loading of  *)
(* credentials by the calendar client.  A blob is a Fernet token under a   *)
(* key, or bare text; json text is the tuple of the dictionary's values.   *)

ENCRYPTION_KEY == "K1"

json_dumps(d) == <<d.token, d.refresh_token, d.expiry>>
json_valid(text) == Len(text) = 3
json_loads(text) ==
    [token |-> text[1], refresh_token |-> text[2], expiry |-> text[3]]

PlainBlob(d) == [fernet |-> "", data |-> json_dumps(d)]
JunkBlob == [fernet |-> "", data |-> <<>>]

encrypt_dict(d) == [fernet |-> ENCRYPTION_KEY, data |-> json_dumps(d)]

\* decryption that treats every blob failing Fernet decryption as corrupt
decrypt_dict_strict(blob) ==
    IF blob.fernet = ENCRYPTION_KEY
    THEN [st |-> "ok", val |-> json_loads(blob.data)]
    ELSE [st |-> "error", val |-> NullDict]

\* Fernet decryption; on InvalidToken the blob is tried as plaintext JSON
\* before the error is raised
decrypt_dict(blob) ==
    IF blob.fernet = ENCRYPTION_KEY
    THEN [st |-> "ok", val |-> json_loads(blob.data)]
    ELSE IF blob.fernet = "" /\ json_valid(blob.data)
         THEN [st |-> "ok", val |-> json_loads(blob.data)]
         ELSE [st |-> "error", val |-> NullDict]

upsert_oauth_token(tbl, d, expiry) ==
    (OWNER_ID :> [token_json |-> encrypt_dict(d), expiry |-> _to_epoch(expiry)])

get_oauth_token(tbl) ==
    IF OWNER_ID \notin DOMAIN tbl
    THEN [st |-> "none", val |-> NullDict]
    ELSE decrypt_dict(tbl[OWNER_ID].token_json)

\* google.oauth2 Credentials built from the stored dictionary: token,
\* refresh_token, token_uri, client id and secret, scopes; no expiry is passed
Credentials(tj) ==
    [token |-> tj.token, refresh_token |-> tj.refresh_token, expiry |-> NoDue]

\* Credentials.expired: never for credentials without an expiry
expired(creds, t) == creds.expiry # NoDue /\ t >= creds.expiry

\* creds.refresh(Request())
refresh(creds, t) == [creds EXCEPT !.token = "t3", !.expiry = t + 1]

\* google_oauth_setup, or any other caller, stores a token dictionary
UpsertOauthToken(d) ==
    /\ oauth_tokens' = upsert_oauth_token(oauth_tokens, d, d.expiry)
    /\ got' = Unread
    /\ connected' = TRUE
    /\ log' = {}
    /\ UNCHANGED <<now, tasks, nextId, remote, nextEv, pushes, pull, jobs, ops,
                   schedVars, parseVars, db, cap>>

GetOauthToken ==
    /\ got' = get_oauth_token(oauth_tokens)
    /\ log' = IF got'.st = "error" THEN {"decrypt_dict"} ELSE {}
    /\ UNCHANGED <<mainVars, schedVars, parseVars, db, cap, oauth_tokens>>

\* _load_credentials, as called by _service before every calendar request
LoadCredentials ==
    LET tok == get_oauth_token(oauth_tokens)
        creds == Credentials(tok.val)
        fresh == refresh(creds, now)
    IN  /\ got' = tok
        /\ log' = IF tok.st = "error" THEN {"decrypt_dict"} ELSE {}
        /\ IF tok.st = "ok" /\ expired(creds, now) /\ creds.refresh_token # ""
           THEN oauth_tokens' = upsert_oauth_token(oauth_tokens, fresh, fresh.expiry)
           ELSE UNCHANGED oauth_tokens
        /\ UNCHANGED <<mainVars, schedVars, parseVars, db, cap>>

\* a store from before encryption: no row, a plaintext row, or a damaged one
CredInit ==
    /\ MainIdle
    /\ SchedIdle
    /\ ParseIdle
    /\ MigIdle
    /\ CapIdle
    /\ got = Unread
    /\ \/ oauth_tokens = <<>>
       \/ \E d \in TokenDicts :
            oauth_tokens = (OWNER_ID :> [token_json |-> PlainBlob(d), expiry |-> d.expiry])
       \/ oauth_tokens = (OWNER_ID :> [token_json |-> JunkBlob, expiry |-> NoDue])
    /\ connected = (OWNER_ID \in DOMAIN oauth_tokens)

CredNext ==
    \/ Tick
    \/ \E d \in TokenDicts : UpsertOauthToken(d)
    \/ GetOauthToken
    \/ LoadCredentials

CredSpec == CredInit /\ [][CredNext]_vars

----------------------------------------------------------------------------
(* /task: _parse_due_at_and_flags on the raw text, then the event body the *)
(* push builds for the stored task.  Instants are half-hours, so midnight  *)
(* is a multiple of DAY.                                                   *)

\* dateparser.parse(text, RELATIVE_BASE=base, PREFER_DATES_FROM=future):
\* the instants it can return (NoDue for None).  A relative date without a
\* time keeps the time of day of the base; an absolute date without a time
\* is that date's midnight; a time alone is today's or tomorrow's.
dateparser_parse(r, base) ==
    LET today == base \div DAY
    IN  IF r.date = "none"
        THEN IF r.time = NoDue THEN {NoDue}
             ELSE {today * DAY + r.time, (today + 1) * DAY + r.time}
        ELSE IF r.time # NoDue THEN {(today + 1) * DAY + r.time}
        ELSE IF r.date = "relative" THEN {base + DAY}
        ELSE {(today + 1) * DAY}

\* the regular expression for HH:MM or "в N час" matches
time_explicit(r) == r.time # NoDue

\* the regular expression for the all-day and birthday words matches
all_day_triggers(r) == r.marker

\* _parse_due_at_and_flags, given what dateparser returned
_parse_due_at_and_flags(r, dt) ==
    IF dt = NoDue THEN [due_at |-> NoDue, all_day |-> FALSE]
    ELSE [due_at |-> dt,
          all_day |-> (all_day_triggers(r) \/ (dt % DAY = 0 /\ ~time_explicit(r)))]

\* add_task_command on text r while the calendar is connected: the task is
\* stored with the parsed due date and flags and, if it has a due date,
\* create_event builds its body
TaskCommand(r) ==
    /\ txt' = r
    /\ \E dt \in dateparser_parse(r, now) :
        LET pf == _parse_due_at_and_flags(r, dt)
            row == NewRow(OWNER_ID, r.text, r.text, pf.due_at, pf.all_day, NoEv, now)
        IN  built' = IF pf.due_at # NoDue
                     THEN <<[due_at |-> pf.due_at,
                             body |-> _build_event_body(TaskObj(row), 1, now)]>>
                     ELSE <<>>
    /\ log' = {}
    /\ UNCHANGED <<mainVars, schedVars, credVars, db, cap>>

ParseInit ==
    MainIdle /\ connected = TRUE /\ SchedIdle /\ CredIdle /\ ParseIdle /\ MigIdle
    /\ CapIdle

ParseNext ==
    \/ Tick
    \/ \E r \in RawTexts : TaskCommand(r)

ParseSpec == ParseInit /\ [][ParseNext]_vars

----------------------------------------------------------------------------
(* init_db on a database file left by an earlier version: the tasks table  *)
(* exists with some of the later columns missing.  A row is a function     *)
(* from the table's columns to values.                                     *)

MaxLegacy == 2

\* the UPDATE after the ALTERs, setting last_modified to the current time
backfill_now(row, t) == [row EXCEPT !["last_modified"] = t]

\* UPDATE tasks SET last_modified = COALESCE(updated_at, now), on one row
backfill(row, t) ==
    [row EXCEPT !["last_modified"] =
        IF row["updated_at"] # NoDue THEN row["updated_at"] ELSE t]

\* init_db: CREATE TABLE IF NOT EXISTS (the table exists), then _migrate
init_db(d, t) ==
    LET toAdd == V3Cols \ d.columns
        cols == d.columns \cup {"due_at"} \cup toAdd
        widen(row) == [c \in cols |-> IF c \in DOMAIN row THEN row[c] ELSE Null(c)]
    IN  [ columns |-> cols,
          rows |-> [i \in DOMAIN d.rows |->
                      IF "last_modified" \in toAdd
                      THEN backfill(widen(d.rows[i]), t)
                      ELSE widen(d.rows[i])],
          added |-> toAdd \cup ({"due_at"} \ d.columns),
          version |-> IF d.version < SCHEMA_VERSION THEN SCHEMA_VERSION
                      ELSE d.version ]

\* the row add_task inserts: it names every column
insert_row(text, due_at, t) ==
    [c \in AllCols |->
        IF c = "text" THEN text
        ELSE IF c = "due_at" THEN _to_epoch(due_at)
        ELSE IF c \in {"created_at", "updated_at", "last_modified"} THEN t
        ELSE Null(c)]

\* MemorySQLite(db_path): the constructor runs init_db
InitDb ==
    /\ db' = init_db(db, now)
    /\ log' = {}
    /\ UNCHANGED <<mainVars, schedVars, credVars, parseVars, cap>>

\* add_task on the opened store
MigAddTask(text, due_at) ==
    /\ db.version = SCHEMA_VERSION
    /\ Len(db.rows) <= MaxLegacy
    /\ db' = [db EXCEPT !.rows = Append(@, insert_row(text, due_at, now))]
    /\ log' = {}
    /\ UNCHANGED <<mainVars, schedVars, credVars, parseVars, cap>>

\* a row written by an earlier version into a table with columns cols
LegacyRow(cols, due_at) ==
    [c \in cols |->
        IF c = "text" THEN "a"
        ELSE IF c = "due_at" THEN due_at
        ELSE IF c \in {"created_at", "updated_at", "last_modified"} THEN 0
        ELSE Null(c)]

\* database files of earlier versions, with up to MaxLegacy tasks
MigInit ==
    /\ MainIdle /\ connected = FALSE /\ SchedIdle /\ CredIdle /\ ParseIdle /\ CapIdle
    /\ \E extra \in SUBSET ({"due_at"} \cup V3Cols), n \in 0..MaxLegacy :
        \E dues \in [1..n -> {NoDue, MaxDue}] :
            /\ extra # {"due_at"} \cup V3Cols
            /\ db = [columns |-> BaseCols \cup extra,
                     rows |-> [i \in 1..n |-> LegacyRow(BaseCols \cup extra, dues[i])],
                     added |-> {},
                     version |-> IF "due_at" \in extra THEN 1 ELSE 0]

MigNext ==
    \/ Tick
    \/ InitDb
    \/ \E d \in {NoDue, MaxDue} : MigAddTask("b", d)

MigSpec == MigInit /\ [][MigNext]_vars

----------------------------------------------------------------------------
(* Smart Capture: offer_capture stores a text under a fresh id and shows   *)
(* the buttons; handle_capture_callback runs once per button press, and    *)
(* presses may overlap.  A handler takes the entry before its first await. *)

Kinds == {"task", "note", "cancel", "other"}

\* the entry is read and left in the store
peek_entry(store, id) == store

\* capture_store.pop(capture_id, None)
pop_entry(store, id) == store \ {id}

\* offer_capture: uuid4 gives an id never used before
offer_capture ==
    /\ cap.nextCap <= MaxCaptures
    /\ cap' = [cap EXCEPT !.capture_store = @ \cup {cap.nextCap},
                          !.nextCap = @ + 1]
    /\ log' = {}
    /\ UNCHANGED <<mainVars, schedVars, credVars, parseVars, db>>

\* handle_capture_callback up to its first await: the data is split and the
\* entry taken; without an entry the handler answers and returns
CallbackStart(id, kind) ==
    /\ id < cap.nextCap
    /\ cap.nextH <= MaxHandlers
    /\ cap' = IF id \in cap.capture_store
              THEN [cap EXCEPT !.capture_store = pop_entry(@, id),
                               !.handlers = @ \cup {[hid |-> cap.nextH, id |-> id,
                                                     kind |-> kind]},
                               !.nextH = @ + 1]
              ELSE [cap EXCEPT !.handled = @ \cup {id}, !.nextH = @ + 1]
    /\ log' = {}
    /\ UNCHANGED <<mainVars, schedVars, credVars, parseVars, db>>

\* the rest of the handler: format, save for task and note (raised when
\* the save or a reply raises), then the finally clause
CallbackFinish(h, raised) ==
    /\ h \in cap.handlers
    /\ cap' = [cap EXCEPT
                !.saved = IF h.kind \in {"task", "note"} /\ ~raised
                          THEN [@ EXCEPT ![h.id] = @ + 1] ELSE @,
                !.capture_store = @ \ {h.id},
                !.handlers = @ \ {h},
                !.handled = @ \cup {h.id}]
    /\ log' = IF raised THEN {"capture"}
              ELSE IF h.kind = "other" THEN {"capture_unknown"} ELSE {}
    /\ UNCHANGED <<mainVars, schedVars, credVars, parseVars, db>>

\* cleanup_expired_captures drops an entry older than CAPTURE_TTL
cleanup_expired_captures(id) ==
    /\ id \in cap.capture_store
    /\ cap' = [cap EXCEPT !.capture_store = @ \ {id}]
    /\ log' = {}
    /\ UNCHANGED <<mainVars, schedVars, credVars, parseVars, db>>

CapInit == MainIdle /\ connected = FALSE /\ SlicesIdle

CapNext ==
    \/ offer_capture
    \/ \E id \in CaptureIds, kind \in Kinds : CallbackStart(id, kind)
    \/ \E h \in cap.handlers, raised \in BOOLEAN : CallbackFinish(h, raised)
    \/ \E id \in CaptureIds : cleanup_expired_captures(id)

CapSpec == CapInit /\ [][CapNext]_vars

----------------------------------------------------------------------------
(* Properties *)

\* steps of a push that has been handed to the calendar client
PushStep == \E p \in pushes : PushWriteBack(p) \/ \E ok \in BOOLEAN : PushRemote(p, ok)

\* remote events that the pushes of task t inserted
EventsOf(t) == {e \in DOMAIN remote : remote[e].src = t}

\* C1: pushing a task, create then update and again create then update,
\* leaves one remote event for the task, never two: no task is the origin
\* of more than one remote event
C1_IdempotentPush == \A t \in TaskIds : Cardinality(EventsOf(t)) <= 1

\* C2: in every reachable state no two distinct tasks of the user carry
\* the same calendar event id as their link
C2_LinkExclusive ==
    \A t1, t2 \in DOMAIN tasks :
        (t1 # t2 /\ tasks[t1].gcal # NoEv) => tasks[t1].gcal # tasks[t2].gcal

\* C3: a pull never regresses a local edit: when the text of a task was
\* edited after sync_pull read the task, the pull's step does not write the
\* text it read earlier over the edited text
C3_PullKeepsLocalEdit ==
    [][PullEvent =>
        \A k \in 1..Len(pull.local) :
            LET t == pull.local[k]
            IN  (t.id \in DOMAIN tasks /\ tasks[t.id].text # t.row.text)
                    => tasks'[t.id].text # t.row.text]_vars

\* C4: for every task, last_modified never decreases, whatever sequence of
\* add_task, update_task, mark_task_locally_modified, set / clear of the
\* calendar link, pushes and pulls is run
C4_WatermarkMonotone ==
    [][\A t \in DOMAIN tasks \cap DOMAIN tasks' :
            tasks'[t].last_modified >= tasks[t].last_modified]_vars

\* C4 witness: a task was modified at a later time than it was created
C4_Witness ==
    \E t \in DOMAIN tasks : /\ tasks[t].last_modified > tasks[t].created_at
                            /\ tasks[t].gcal # NoEv

\* C5: the link write-back after create_event / update_event and the update
\* sync_pull applies to a local task leave last_modified of every task as
\* it was
C5_CalendarWritesKeepWatermark ==
    [][((\E p \in pushes : PushWriteBack(p)) \/ PullEvent) =>
        \A t \in DOMAIN tasks \cap DOMAIN tasks' :
            tasks'[t].last_modified = tasks[t].last_modified]_vars

\* C6: when the remote delete call of a task's delete push fails, the
\* failure is written to the log
C6_FailedRemoteDeleteLogged ==
    [][\A p \in pushes :
        (/\ p.kind = "delete"
         /\ _get_gcal_link(p.snap) # NoEv
         /\ is_connected(p.snap.user_id)
         /\ PushRemote(p, FALSE)) => log' # {}]_vars

\* C7: the remote delete is pushed before the local row is removed: while
\* the delete push of a task has not yet run, the task's row is in the store
C7_RemoteDeleteBeforeLocal ==
    \A p \in pushes : (p.kind = "delete" /\ p.pc = "queued") => p.id \in DOMAIN tasks

\* C8: the row a user mutation wrote is the same whether the calendar push
\* succeeds, fails or is not made: no step of a push changes the text,
\* raw_text, status or due_at of a task
C8_PushKeepsUserFields ==
    [][PushStep =>
        \A t \in DOMAIN tasks \cap DOMAIN tasks' :
            /\ tasks'[t].text = tasks[t].text
            /\ tasks'[t].raw_text = tasks[t].raw_text
            /\ tasks'[t].status = tasks[t].status
            /\ tasks'[t].due_at = tasks[t].due_at]_vars

\* C9: list_tasks_missing_calendar_link returns exactly the open tasks that
\* no push and no pull has linked to an event
C9_BackfillSet ==
    \A t \in DOMAIN tasks :
        t \in list_tasks_missing_calendar_link(OWNER_ID)
            <=> (/\ tasks[t].status = "open"
                 /\ tasks[t].gcal = NoEv
                 /\ tasks[t].calendar_event_id = NoEv)

\* C10: when the pull job handles an affected task, a task with a due date
\* that is not all-day and lies more than one hour after the time the job
\* read has exactly one reminder job afterwards, at due_at minus one hour;
\* for any other task the job registers nothing
C10_ReminderDerivation ==
    [][JobSched =>
        LET id == CHOOSE i \in pull.aff : \A j \in pull.aff : i <= j
            mine(js) == {j \in js : j.id = id}
        IN  IF /\ id \in DOMAIN tasks
               /\ tasks[id].due_at # NoDue
               /\ ~tasks[id].all_day
               /\ tasks[id].due_at > pull.nowj + REMINDER_LEAD
            THEN mine(jobs') = {[id |-> id, at |-> tasks[id].due_at - REMINDER_LEAD]}
            ELSE mine(jobs') = mine(jobs)]_vars

\* C10 witness: a pull has left a reminder one hour before a task's due time
C10_Witness ==
    \E j \in jobs : /\ j.id \in DOMAIN tasks
                    /\ ~tasks[j.id].all_day
                    /\ tasks[j.id].due_at = j.at + REMINDER_LEAD
                    /\ pull.pc = "idle"

\* C11: in every reachable state there is at most one pending reminder job
\* per task: registering a reminder again replaces the pending job of the
\* same id
C11_OneReminderPerTask ==
    \A j1, j2 \in jobs : j1.id = j2.id => j1 = j2

\* C11 witness: a task imported from the calendar and rescheduled there
\* later has its reminder at the new time
C11_Witness ==
    \E j \in jobs :
        /\ j.id \in DOMAIN tasks
        /\ tasks[j.id].gcal \in DOMAIN remote
        /\ remote[tasks[j.id].gcal].src = 0
        /\ tasks[j.id].created_at < tasks[j.id].last_modified
        /\ j.at = MaxDue + 1 - REMINDER_LEAD
        /\ tasks[j.id].due_at = MaxDue + 1

C13_OneInstancePerJob == \A j \in JobIds : running[j] <= 1

\* C13 witness: the pull job's trigger fired while the pull was running and
\* the run was skipped
C13_Witness == log = {"max_instances"} /\ running["google_pull_sync"] = 1

\* C14: an exception raised inside a job body is logged inside that job,
\* does not leave the job, and leaves every other job as it was
C14_JobFailureIsolated ==
    [][\A j \in JobIds :
        JobEnd(j, TRUE) =>
            /\ log' = {j}
            /\ escaped' = {}
            /\ \A k \in JobIds \ {j} : running'[k] = running[k]]_vars

\* C14 witness: the pull job failed and logged it while the health ping,
\* started before, is still running
C14_Witness ==
    /\ log = {"google_pull_sync"}
    /\ running["health_ping"] = 1
    /\ running["google_pull_sync"] = 0

\* C15: a plaintext JSON blob is read by get_oauth_token as the dictionary
\* it holds; every upsert_oauth_token leaves the blob encrypted, and
\* get_oauth_token then returns the dictionary that was upserted
C15_CredentialRoundTrip ==
    [][/\ \A d \in TokenDicts :
            (GetOauthToken /\ OWNER_ID \in DOMAIN oauth_tokens
                /\ oauth_tokens[OWNER_ID].token_json = PlainBlob(d))
            => got' = [st |-> "ok", val |-> d]
       /\ \A d \in TokenDicts :
            UpsertOauthToken(d)
            => /\ oauth_tokens'[OWNER_ID].token_json.fernet = ENCRYPTION_KEY
               /\ oauth_tokens'[OWNER_ID].token_json # PlainBlob(d)
               /\ get_oauth_token(oauth_tokens') = [st |-> "ok", val |-> d]]_vars

\* C15 witness: the store began with a plaintext or damaged row, a token
\* was upserted, and the read after it returned that token from an
\* encrypted blob
C15_Witness ==
    /\ OWNER_ID \in DOMAIN oauth_tokens
    /\ oauth_tokens[OWNER_ID].token_json.fernet = ENCRYPTION_KEY
    /\ got.st = "ok"
    /\ got.val = [token |-> "t1", refresh_token |-> "r1", expiry |-> 2]
    /\ json_loads(oauth_tokens[OWNER_ID].token_json.data) = got.val

\* C16: loading a stored credential whose access token is expired and
\* whose refresh token is present leaves the refreshed credential stored
C16_RefreshOnExpiry ==
    [][\A d \in TokenDicts :
        (/\ LoadCredentials
         /\ get_oauth_token(oauth_tokens) = [st |-> "ok", val |-> d]
         /\ d.expiry # NoDue /\ d.expiry <= now
         /\ d.refresh_token # "")
        => get_oauth_token(oauth_tokens').val.token = "t3"]_vars

\* C17: while no credential is stored, a CalendarSync push and the pull
\* job return without a remote call, change no task row, register no
\* reminder and log no error; the pull reports nothing imported or updated
C17_NotConnectedShortCircuit ==
    [][~connected =>
        /\ \A p \in pushes, ok \in BOOLEAN :
            (p.via = "sync" /\ PushRemote(p, ok))
            => /\ remote' = remote /\ tasks' = tasks /\ jobs' = jobs
               /\ pushes' = pushes \ {p} /\ log' = {}
        /\ \A ok \in BOOLEAN :
            JobStart(ok)
            => /\ remote' = remote /\ tasks' = tasks /\ jobs' = jobs
               /\ pull' = IdlePull /\ log' = {}]_vars

\* C17 witness: not connected, a task with a due date was added and its
\* push has returned: no event, no link, no reminder
C17_Witness ==
    /\ ~connected
    /\ pushes = {} /\ remote = <<>> /\ jobs = {} /\ log = {}
    /\ \E id \in DOMAIN tasks :
        tasks[id].due_at # NoDue /\ tasks[id].gcal = NoEv

\* C18: an update made by a pull passes no status, recurrence or person_id,
\* and every task existing before a pull step keeps its status
C18_PullKeepsStatus ==
    [][PullEvent =>
        /\ \A id \in DOMAIN tasks :
            id \in DOMAIN tasks' /\ tasks'[id].status = tasks[id].status
        /\ LET e == NextEvent(pull.evs, pull.todo)
               k == _find_local_by_event_id(pull.local, e)
           IN  k # 0 =>
                DOMAIN PullFields(pull.local[k].row, pull.evs[e], e)
                    \cap {"status", "recurrence", "person_id"} = {}]_vars

\* C18 witness: a task marked done (which also cleared its due date) was
\* then updated by a pull, which restored the due date and left it done
C18_Witness ==
    /\ pull.pc = "events"
    /\ \E id \in pull.updated :
        /\ id \in DOMAIN tasks
        /\ tasks[id].status = "done"
        /\ tasks[id].due_at # NoDue

\* C19: the event pushed for a text without a time token, or with an
\* all-day marker, is date-only and spans one day; the event pushed for a
\* text with a time token starts at due_at and ends 60 minutes later
C19_AllDayOrTimed ==
    built # <<>> =>
        LET b == built[1].body
        IN  IF txt.time = NoDue \/ txt.marker
            THEN b.all_day /\ b.end = b.start + 1
            ELSE /\ ~b.all_day
                 /\ b.start = built[1].due_at
                 /\ b.end = b.start + _EVENT_DEFAULT_DURATION_MIN

\* C20: init_db on a tasks table lacking later columns adds them and keeps
\* every row and every value it had; a due_at column it adds is null in the
\* existing rows; a last_modified column it adds holds each row's
\* updated_at; init_db run again changes nothing; a task added afterwards
\* has the due_at it was given and leaves the earlier rows alone
C20_MigrationPreservesData ==
    [][/\ InitDb =>
            /\ db'.columns = AllCols
            /\ Len(db'.rows) = Len(db.rows)
            /\ \A i \in DOMAIN db.rows :
                /\ \A c \in db.columns : db'.rows[i][c] = db.rows[i][c]
                /\ "due_at" \notin db.columns => db'.rows[i]["due_at"] = NoDue
                /\ "last_modified" \notin db.columns =>
                        db'.rows[i]["last_modified"] = db.rows[i]["updated_at"]
            /\ init_db(db', now).columns = db'.columns
            /\ init_db(db', now).rows = db'.rows
            /\ init_db(db', now).version = db'.version
       /\ \A d \in {NoDue, MaxDue} :
            MigAddTask("b", d) =>
                /\ db'.rows[Len(db'.rows)]["due_at"] = d
                /\ \A i \in DOMAIN db.rows : db'.rows[i] = db.rows[i]]_vars

\* C20 witness: init_db added due_at and last_modified at time 1 to a table
\* with one task, which kept a null due_at and got last_modified from its
\* updated_at; a task added afterwards holds its due date
C20_Witness ==
    /\ {"due_at", "last_modified"} \subseteq db.added
    /\ now = 1
    /\ Len(db.rows) = 2
    /\ db.rows[1]["due_at"] = NoDue
    /\ db.rows[1]["last_modified"] = 0 /\ db.rows[1]["updated_at"] = 0
    /\ db.rows[2]["due_at"] = MaxDue /\ db.rows[2]["last_modified"] = 1

\* C21: after a task is updated through the store adapter while the
\* calendar is connected, a push for that task has been issued
C21_PushOnUpdate ==
    [][\A id \in TaskIds, p \in Patches, l \in BOOLEAN :
        (AdapterUpdateTask(id, p, l) /\ id \in DOMAIN tasks /\ connected)
        => \E q \in pushes' \ pushes : q.id = id /\ q.kind = "update"]_vars

\* C22: a set_task_calendar_link that would give a task the link another
\* task of the same user holds is rejected: no row changes and the caller
\* is told of the conflict
C22_DuplicateLinkRejected ==
    [][\A id \in TaskIds :
        (/\ SetTaskCalendarLink(id, 1)
         /\ \E o \in DOMAIN tasks \ {id} :
                /\ tasks[o].user_id = tasks[id].user_id
                /\ tasks[o].calendar_event_id = 1)
        => tasks' = tasks /\ "conflict" \in log']_vars

\* C23: a capture id for which a callback has been handled is no longer in
\* capture_store, and no captured text is saved more than once
C23_CaptureConsumedOnce ==
    /\ \A id \in cap.handled : id \notin cap.capture_store
    /\ \A id \in CaptureIds : cap.saved[id] <= 1

\* C23 witness: the one capture offered got two button presses; both were
\* handled and the text was saved once
C23_Witness ==
    /\ cap.nextCap = 2
    /\ cap.saved[1] = 1
    /\ cap.handlers = {}
    /\ cap.nextH = 3
    /\ 1 \in cap.handled
    /\ log = {}

\* C24: a pull step imports an event as a new task only when no task of
\* the user carries a link to that event
C24_ImportOnlyUnlinked ==
    [][(PullEvent /\ nextId' # nextId) =>
        LET e == NextEvent(pull.evs, pull.todo)
        IN  \A i \in DOMAIN tasks :
                tasks[i].user_id = OWNER_ID => tasks[i].gcal # e]_vars

\* C25: delete_event on a task with a link goes on to clear the link
\* whether the remote delete succeeded or failed, and the row it leaves
\* has no link; on a task without a link it calls nothing and writes nothing
C25_DeleteEventClearsLink ==
    [][\A p \in pushes :
        (p.kind = "delete" /\ connected) =>
            /\ \A ok \in BOOLEAN :
                PushRemote(p, ok) =>
                    IF _get_gcal_link(p.snap) = NoEv
                    THEN remote' = remote /\ tasks' = FinishTasks(p, tasks)
                    ELSE /\ [p EXCEPT !.pc = "link", !.ev = NoEv] \in pushes'
                         /\ tasks' = tasks
            /\ PushWriteBack(p) =>
                LET after == _safe_update_task(tasks, p.id,
                                [extra |-> _set_gcal_link(p.snap, p.ev)], now, now')
                IN  /\ tasks' = FinishTasks(p, after)
                    /\ p.id \in DOMAIN after => _get_gcal_link(after[p.id]) = NoEv]_vars

\* C25 witness: the remote delete for a linked task that still exists has
\* failed (the event is still there) and delete_event is about to clear
\* the link
C25_Witness ==
    \E p \in pushes :
        /\ p.kind = "delete" /\ p.pc = "link"
        /\ p.id \in DOMAIN tasks
        /\ tasks[p.id].gcal # NoEv
        /\ tasks[p.id].gcal \in DOMAIN remote

\* C26: an update_task call leaves every field it was not passed as it was
C26_UpdateOnlyPassedFields ==
    [][\A id \in TaskIds, p \in Patches, l \in BOOLEAN :
        (AdapterUpdateTask(id, p, l) /\ id \in DOMAIN tasks) =>
            /\ ~Has(p, "text") => tasks'[id].text = tasks[id].text
            /\ ~Has(p, "raw_text") => tasks'[id].raw_text = tasks[id].raw_text
            /\ ~Has(p, "status") => tasks'[id].status = tasks[id].status
            /\ ~Has(p, "due_at") => tasks'[id].due_at = tasks[id].due_at
            /\ ~Has(p, "extra") => /\ tasks'[id].gcal = tasks[id].gcal
                                   /\ tasks'[id].all_day = tasks[id].all_day]_vars

\* C27: a pull step on an event whose linked task already agrees with it
\* (as the previous pull left it, nothing changed since) reports no update
\* and leaves the task's text, raw_text and due_at as they were
C27_PullFixpoint ==
    [][PullEvent =>
        LET e == NextEvent(pull.evs, pull.todo)
            k == _find_local_by_event_id(pull.local, e)
        IN  (/\ k # 0
             /\ pull.local[k].id \in DOMAIN tasks
             /\ TaskObj(tasks[pull.local[k].id]) = pull.local[k].row
             /\ remote = pull.evs
             /\ ~needs_update(pull.local[k].row, pull.evs[e]))
            => LET id == pull.local[k].id
               IN  /\ id \notin pull'.updated /\ id \notin pull'.aff
                   /\ tasks'[id].text = tasks[id].text
                   /\ tasks'[id].raw_text = tasks[id].raw_text
                   /\ tasks'[id].due_at = tasks[id].due_at]_vars

\* C28: pulling never echoes back. The add_task and update_task calls
\* sync_pull makes and the link write-back of a push start no further push,
\* a pull never creates or patches a remote event, and one user mutation
\* queues at most one push, which makes at most one remote write.
C28_PullNeverEchoes ==
    [][/\ (PullEvent \/ JobStart(TRUE) \/ JobStart(FALSE) \/ JobSched)
            => (pushes' = pushes /\ remote' = remote /\ nextEv' = nextEv)
       /\ \A p \in pushes :
            PushWriteBack(p) => (pushes' = pushes \ {p} /\ remote' = remote)
       /\ \A p \in pushes, ok \in BOOLEAN :
            PushRemote(p, ok)
            => {q \in pushes' : q.pc = "queued"} = {q \in pushes : q.pc = "queued"} \ {p}
       /\ Cardinality({q \in pushes' \ pushes : q.pc = "queued"}) <= 1
       /\ (remote' # remote /\ \E p \in pushes : p.pc = "queued" /\ p \notin pushes')
            => Cardinality({e \in DOMAIN remote \cup DOMAIN remote' :
                             e \notin DOMAIN remote \/ e \notin DOMAIN remote'
                             \/ remote'[e] # remote[e]}) = 1]_vars

\* a pull has imported a task for a remote event through the adapter: the
\* adapter's push attempt was logged and nothing is queued
C28_Witness ==
    /\ pull.pc = "events"
    /\ \E i \in pull.imported : i \in DOMAIN tasks /\ tasks[i].gcal \in DOMAIN remote
    /\ log = {"loader"}
    /\ pushes = {}

\* C29: no stale reminder. Every pending reminder job refers to an existing
\* open task and fires one hour before that task's current due_at, so that
\* after a local reschedule, completion or delete no reminder for the old
\* due time remains pending.
C29_NoStaleReminder ==
    \A j \in jobs :
        /\ j.id \in DOMAIN tasks
        /\ tasks[j.id].status = "open"
        /\ tasks[j.id].due_at # NoDue
        /\ j.at = tasks[j.id].due_at - REMINDER_LEAD

\* C30: every task satisfies created_at <= last_modified <= updated_at:
\* add_task sets the three timestamps equal and no later store write leaves
\* last_modified greater than updated_at.
C30_TimestampOrder ==
    \A i \in DOMAIN tasks :
        /\ tasks[i].created_at <= tasks[i].last_modified
        /\ tasks[i].last_modified <= tasks[i].updated_at

============================================================================
